---- MODULE Spec2Model ----
(***************************************************************************)
(* A model of the two programs of BPM-Monitoring-App:                      *)
(*   BPMMonitoringApp.py  ("cli"): a terminal menu that opens one Tk       *)
(*                        window per monitored address;                    *)
(*   BPMWithGUI.py        ("gui"): one Tk window with a scan list and a    *)
(*                        monitor view.                                    *)
(* Each monitoring session is one thread running an asyncio coroutine      *)
(* (getHeartRate / connect_and_monitor) and one rolling history            *)
(* (HeartRateValues).  A session record holds the thread's position, the   *)
(* state of its BleakClient and the consumer-side objects it updates.      *)
(*                                                                         *)
(* Python indexes from 0 and TLA+ from 1: data[1] of the source is data[2] *)
(* here.                                                                   *)
(***************************************************************************)
EXTENDS Integers, Sequences, FiniteSets, TLC

VARIABLES
    app,        \* which program is running: "cli" or "gui"
    ui,         \* where the main thread is (menu, prompt, main, monitor, ...)
    listbox,    \* gui: the rows of device_listbox
    scanning,   \* gui: scan threads started and not yet finished
    scans,      \* scans started so far
    messagebox, \* gui: the text of the last error box shown, "" if none
    discovered, \* gui: how many devices the last finished discovery of
                \* _scan_devices returned, -1 if none has finished
    sessions,   \* the monitoring sessions started, in order
    beat        \* notifications sent by peripherals so far

vars == <<app, ui, listbox, scanning, scans, messagebox, discovered, sessions, beat>>

----------------------------------------------------------------------------
(* Program constants *)

\* deque([0]*50, maxlen=50)
Capacity == 50

\* await asyncio.sleep(5) in the except branch of connect_and_monitor
RetryDelay == 5

(* Bounds of the model *)

\* notifications sent under Spec
MaxBeats == 3

\* notifications sent under SpecLong
LongRun == 55

\* nested connect_and_monitor() calls the interpreter allows before it
\* raises RecursionError (sys.getrecursionlimit(), scaled down)
RecursionLimit == 2

\* scans the operator starts
MaxScans == 1

----------------------------------------------------------------------------
(* The environment: addresses, peripherals, payloads *)

Addresses == {"AA:BB", "CC:DD"}

\* What BleakScanner.discover() can return: a list of devices, maybe empty.
\* The second device advertises no name (device.name is None).
Discoveries ==
    { <<>>,
      << [name |-> "HRM-1", address |-> "AA:BB"] >>,
      << [name |-> "HRM-1", address |-> "AA:BB"],
         [name |-> "None", address |-> "CC:DD"] >> }

\* Heart Rate Measurement payloads: byte 0 flags, then the value.
\*   <<0, 60>>      8-bit format, 60 bpm
\*   <<1, 40, 0>>   16-bit format, 40 bpm
\*   <<1, 44, 1>>   16-bit format, 300 bpm
\*   <<6, 200>>     8-bit format with the contact bits set, 200 bpm
\*   <<0>>, <<>>    truncated payloads
Payloads ==
    { <<0, 60>>, <<1, 40, 0>>, <<1, 44, 1>>, <<6, 200>>, <<0>>, <<>> }

\* The value a peripheral reports at its n-th notification under SpecLong:
\* "AA:BB" counts 1, 2, 3, ...; "CC:DD" climbs from 200 in steps of 3.
RampValue(address, n) ==
    IF address = "AA:BB" THEN n ELSE 200 + 3 * n

\* The payloads that carry value v: the 8-bit format when v fits a byte,
\* and the 16-bit little-endian format.
RampPayloads(v) ==
    (IF v < 256 THEN { <<0, v>> } ELSE {}) \cup { <<1, v % 256, v \div 256>> }

----------------------------------------------------------------------------
(* Pure helpers *)

\* A deque built without maxlen: nothing is ever dropped.
DequeAppendUnbounded(q, x) == Append(q, x)

\* collections.deque.append with maxlen: drop the oldest when full.
DequeAppend(q, x) ==
    IF Len(q) >= Capacity THEN Append(Tail(q), x) ELSE Append(q, x)

\* heart_rate = data[0]: the flags byte taken for the value.
DecodeFlagsByte(data) == data[1]

\* heart_rate = data[1]
Decode(data) == data[2]

\* data[1] raises IndexError on a payload of fewer than 2 bytes.
Decodable(data) == Len(data) >= 2

\* f"{device.name or 'Unknown'} - {device.address}" as its " - " parts.
DeviceRow(device) ==
    << IF device.name = "None" THEN "Unknown" ELSE device.name, device.address >>

\* row.split(" - ")[-1]
SplitLast(row) == row[Len(row)]

\* A session whose history starts empty: deque(maxlen=50) with no zeros.
NewSessionEmpty(address) ==
    [ device_address  |-> address,
      pc              |-> "connect",
      link            |-> FALSE,
      depth           |-> 0,
      timer           |-> 0,
      announced       |-> FALSE,
      HeartRateValues |-> <<>>,
      label           |-> -1,
      writer          |-> "main",
      decoded         |-> <<>>,
      appended        |-> <<>>,
      lastData        |-> <<>>,
      delivered       |-> FALSE,
      y_min           |-> 50,
      y_max           |-> 100 ]

\* HeartRateApp.__init__ / start_heart_rate_gui and the thread they start:
\* a history of 50 zeros, the label "-- BPM" (-1 here), the y-axis set to
\* (50, 100), and a thread about to open its BleakClient.  announced: the current attempt has printed
\* "Connected to ...".  writer is the thread that last wrote the label
\* and the history: the main thread builds them.
NewSession(address) ==
    [ device_address  |-> address,
      pc              |-> "connect",
      link            |-> FALSE,
      depth           |-> 0,
      timer           |-> 0,
      announced       |-> FALSE,
      HeartRateValues |-> [i \in 1..Capacity |-> 0],
      label           |-> -1,
      writer          |-> "main",
      decoded         |-> <<>>,
      appended        |-> <<>>,
      lastData        |-> <<>>,
      delivered       |-> FALSE,
      y_min           |-> 50,
      y_max           |-> 100 ]

\* The window a session draws into is open: the main thread is in its
\* mainloop.  Each cli session has a window of its own, the latest one.
WindowOpen(s) == ui = "monitor" /\ s = Len(sessions)

\* The thread of a session has not ended.
Running(sess) == sess.pc \in {"connect", "check", "subscribe", "streaming", "backoff"}

----------------------------------------------------------------------------
(* The consumer side: the callback and the view it updates *)

\* An upper limit that follows the sample instead of only growing.
YMaxFollows(y_max, bpm) == bpm + 5

\* The upper limit of the y-axis after a sample: the gui keeps a margin of
\* 5 above the sample, the cli moves the limit only when the sample is
\* above it.
YMax(y_max, bpm) ==
    IF app = "gui"
    THEN IF bpm + 5 > y_max THEN bpm + 5 ELSE y_max
    ELSE IF bpm > y_max THEN bpm + 5 ELSE y_max

\* The lower limit of the y-axis after a sample.
YMin(y_min, bpm) ==
    IF app = "gui"
    THEN IF bpm - 5 < y_min THEN bpm - 5 ELSE y_min
    ELSE IF bpm < y_min THEN bpm - 5 ELSE y_min

\* update_heart_rate / updateHeartRate, called by the callback on the BLE
\* thread.  Its first statement configures the label: with the window gone
\* that call raises and nothing after it runs.  The callback calls it
\* directly, so the writes are made by the BLE thread.  ax.get_ylim()
\* returns what the last set_ylim set: set_ylim turns autoscaling off, so
\* the plot that follows it does not move the limits.
update_heart_rate(sess, bpm, open) ==
    IF ~open
    THEN sess
    ELSE [sess EXCEPT !.label = bpm,
                      !.writer = "ble",
                      !.HeartRateValues = DequeAppend(@, bpm),
                      !.appended = Append(@, bpm),
                      !.delivered = TRUE,
                      !.y_min = YMin(@, bpm),
                      !.y_max = YMax(@, bpm)]

\* A callback that reports a short payload as 0 bpm instead of raising.
heart_rate_callback_zero(sess, data, open) ==
    LET got == [sess EXCEPT !.lastData = data, !.delivered = FALSE]
        bpm == IF Decodable(data) THEN Decode(data) ELSE 0
    IN  update_heart_rate([got EXCEPT !.decoded = Append(@, bpm)], bpm, open)

\* heart_rate_callback / heartRateCallback.  An exception raised in the
\* callback (IndexError on a short payload, or the one update_heart_rate
\* raises) ends the callback only: the notification dispatcher of the BLE
\* library reports it and the coroutine keeps sleeping in its loop.
heart_rate_callback(sess, data, open) ==
    LET got == [sess EXCEPT !.lastData = data, !.delivered = FALSE]
    IN  IF ~Decodable(data)
        THEN got
        ELSE update_heart_rate([got EXCEPT !.decoded = Append(@, Decode(data))],
                               Decode(data), open)

----------------------------------------------------------------------------
(* The BLE thread of a session: getHeartRate / connect_and_monitor *)

\* The handler entered with the client still open, as it would be with the
\* try statement inside the "async with" block.
RaisedKeepsClient(sess) ==
    IF app = "gui"
    THEN [sess EXCEPT !.pc = "backoff", !.timer = RetryDelay]
    ELSE [sess EXCEPT !.pc = "failed"]

\* An exception leaves the "async with" block: the client is closed.  The
\* gui catches it, prints it and sleeps 5 seconds before it calls itself
\* again; the cli has no handler and its thread ends with the exception.
Raised(sess) ==
    IF app = "gui"
    THEN [sess EXCEPT !.link = FALSE, !.pc = "backoff", !.timer = RetryDelay]
    ELSE [sess EXCEPT !.link = FALSE, !.pc = "failed"]

\* The retry after the sleep: one more nested connect_and_monitor() call.
\* Past the interpreter's recursion limit the call raises RecursionError
\* inside the except branch, which no enclosing handler catches: every
\* frame unwinds and the thread ends.
Retried(sess) ==
    IF sess.depth < RecursionLimit
    THEN [sess EXCEPT !.pc = "connect", !.depth = @ + 1, !.announced = FALSE]
    ELSE [sess EXCEPT !.pc = "failed"]

\* BleakClient.__aenter__ connects to a peripheral that is there.
ConnectOk(s) ==
    /\ sessions[s].pc = "connect"
    /\ sessions[s].device_address \in Addresses
    /\ sessions' = [sessions EXCEPT ![s].link = TRUE, ![s].pc = "check"]
    /\ UNCHANGED <<app, ui, listbox, scanning, scans, messagebox, discovered, beat>>

\* BleakClient.__aenter__ raises (timeout, device unreachable).
ConnectFail(s) ==
    /\ sessions[s].pc = "connect"
    /\ sessions' = [sessions EXCEPT ![s] = Raised(@)]
    /\ UNCHANGED <<app, ui, listbox, scanning, scans, messagebox, discovered, beat>>

\* The "Connected" message printed before the connection is tested.
CheckedAnnounceFirst(sess) ==
    [sess EXCEPT !.announced = TRUE,
                 !.pc = IF sess.link THEN "subscribe" ELSE "done"]

\* if await client.is_connected(): print("Connected to ...") and go on to
\* start_notify; when it is false the block is left and the coroutine
\* returns normally: the thread ends without a retry.
Checked(sess) ==
    IF sess.link
    THEN [sess EXCEPT !.announced = TRUE, !.pc = "subscribe"]
    ELSE [sess EXCEPT !.pc = "done"]

\* await client.is_connected() returns.
IsConnected(s) ==
    /\ sessions[s].pc = "check"
    /\ sessions' = [sessions EXCEPT ![s] = Checked(@)]
    /\ UNCHANGED <<app, ui, listbox, scanning, scans, messagebox, discovered, beat>>

\* await client.start_notify(...) succeeds; the coroutine enters
\* while True: await asyncio.sleep(1).
SubscribeOk(s) ==
    /\ sessions[s].pc = "subscribe"
    /\ sessions[s].link
    /\ sessions' = [sessions EXCEPT ![s].pc = "streaming"]
    /\ UNCHANGED <<app, ui, listbox, scanning, scans, messagebox, discovered, beat>>

\* await client.start_notify(...) raises (characteristic not found, not
\* connected any more).
SubscribeFail(s) ==
    /\ sessions[s].pc = "subscribe"
    /\ sessions' = [sessions EXCEPT ![s] = Raised(@)]
    /\ UNCHANGED <<app, ui, listbox, scanning, scans, messagebox, discovered, beat>>

\* The peripheral goes away.  Nothing in the coroutine waits on the
\* connection: asyncio.sleep(1) does not raise and no disconnected
\* callback is registered, so the thread stays where it is.
TransportDrop(s) ==
    /\ sessions[s].link
    /\ sessions' = [sessions EXCEPT ![s].link = FALSE]
    /\ UNCHANGED <<app, ui, listbox, scanning, scans, messagebox, discovered, beat>>

\* A notification arrives on a subscribed, connected client.
Notify(s, data) ==
    /\ sessions[s].pc = "streaming"
    /\ sessions[s].link
    /\ sessions' = [sessions EXCEPT ![s] = heart_rate_callback(@, data, WindowOpen(s))]
    /\ beat' = beat + 1
    /\ UNCHANGED <<app, ui, listbox, scanning, scans, messagebox, discovered>>

\* One second of await asyncio.sleep(5) passes.
Tick(s) ==
    /\ sessions[s].pc = "backoff"
    /\ sessions[s].timer > 0
    /\ sessions' = [sessions EXCEPT ![s].timer = @ - 1]
    /\ UNCHANGED <<app, ui, listbox, scanning, scans, messagebox, discovered, beat>>

\* The sleep is over: await connect_and_monitor().
Retry(s) ==
    /\ sessions[s].pc = "backoff"
    /\ sessions[s].timer = 0
    /\ sessions' = [sessions EXCEPT ![s] = Retried(@)]
    /\ UNCHANGED <<app, ui, listbox, scanning, scans, messagebox, discovered, beat>>

----------------------------------------------------------------------------
(* The operator and the main thread *)

\* main_menu, choice "1": asyncio.run(scanDevices()) prints what it finds
\* and keeps nothing.
scanDevices(devices) ==
    /\ app = "cli"
    /\ ui = "menu"
    /\ UNCHANGED vars

\* main_menu, choice "2": go to the address prompt.
ChooseMonitor ==
    /\ app = "cli"
    /\ ui = "menu"
    /\ ui' = "prompt"
    /\ UNCHANGED <<app, listbox, scanning, scans, messagebox, discovered, sessions, beat>>

\* The prompt takes an address: start_heart_rate_gui(device_address) builds
\* a window and a HeartRateApp, whose __init__ starts the BLE thread, and
\* enters root.mainloop().
start_heart_rate_gui(address) ==
    /\ app = "cli"
    /\ ui = "prompt"
    /\ sessions' = Append(sessions, NewSession(address))
    /\ ui' = "monitor"
    /\ UNCHANGED <<app, listbox, scanning, scans, messagebox, discovered, beat>>

\* The prompt takes "0": back to the menu.
GoBack ==
    /\ app = "cli"
    /\ ui = "prompt"
    /\ ui' = "menu"
    /\ UNCHANGED <<app, listbox, scanning, scans, messagebox, discovered, sessions, beat>>

\* main_menu, choice "0": the program ends.  The BLE threads are daemon
\* threads: they end with the process, and so do their connections.
ExitProgram ==
    /\ app = "cli"
    /\ ui = "menu"
    /\ ui' = "exited"
    /\ sessions' = [s \in DOMAIN sessions |->
                       IF Running(sessions[s])
                       THEN [sessions[s] EXCEPT !.pc = "killed", !.link = FALSE]
                       ELSE sessions[s]]
    /\ UNCHANGED <<app, listbox, scanning, scans, messagebox, discovered, beat>>

\* The operator closes the window: root.mainloop() returns.  The cli goes
\* back to its prompt.  In the gui the main thread is over; its BLE threads
\* are not daemon threads and run on.
CloseWindow ==
    /\ \/ ui = "monitor"
       \/ app = "gui" /\ ui = "main"
    /\ ui' = IF app = "cli" THEN "prompt" ELSE "closed"
    /\ UNCHANGED <<app, listbox, scanning, scans, messagebox, discovered, sessions, beat>>

\* gui, the scan button: scan_devices shows "Scanning..." and starts a
\* thread that runs _scan_devices.
scan_devices ==
    /\ app = "gui"
    /\ ui = "main"
    /\ listbox' = << <<"Scanning...">> >>
    /\ scanning' = scanning + 1
    /\ scans' = scans + 1
    /\ UNCHANGED <<app, ui, messagebox, discovered, sessions, beat>>

\* gui, the scan thread: _scan_devices gets the result of the discovery.
\* With no device it shows an error box and returns, leaving the list as it
\* is; otherwise it replaces the rows.  With the window closed its first
\* call on a widget raises and the thread ends.
scan_devices_thread(devices) ==
    /\ scanning > 0
    /\ scanning' = scanning - 1
    /\ discovered' = Len(devices)
    /\ messagebox' = IF devices = <<>> /\ ui # "closed"
                     THEN "No devices found"
                     ELSE messagebox
    /\ listbox' = IF devices = <<>> \/ ui = "closed"
                  THEN listbox
                  ELSE [i \in 1..Len(devices) |-> DeviceRow(devices[i])]
    /\ UNCHANGED <<app, ui, scans, sessions, beat>>

\* gui, the connect button: connect_device with row sel selected (0: no
\* row).  Without a selection it shows an error box.  Otherwise the text
\* after the last " - " of the row is the address, the menu widgets are
\* hidden, start_heart_rate_gui builds the monitor view and the BLE thread
\* starts.
connect_device(sel) ==
    /\ app = "gui"
    /\ ui = "main"
    /\ IF sel = 0
       THEN /\ messagebox' = "Please select a device"
            /\ UNCHANGED <<app, ui, listbox, scanning, scans, discovered, sessions, beat>>
       ELSE /\ sessions' = Append(sessions, NewSession(SplitLast(listbox[sel])))
            /\ listbox' = << <<"Connecting...">> >>
            /\ ui' = "monitor"
            /\ UNCHANGED <<app, scanning, scans, messagebox, discovered, beat>>

----------------------------------------------------------------------------
(* Specifications *)

Init ==
    /\ app \in {"cli", "gui"}
    /\ ui = IF app = "cli" THEN "menu" ELSE "main"
    /\ listbox = <<>>
    /\ scanning = 0
    /\ scans = 0
    /\ messagebox = ""
    /\ discovered = -1
    /\ sessions = <<>>
    /\ beat = 0

\* The addresses of the sessions started so far.
Monitored == { sessions[s].device_address : s \in DOMAIN sessions }

\* The operator's steps, but for the address typed at the cli prompt.
Operator ==
    \/ \E devices \in Discoveries : scanDevices(devices)
    \/ ChooseMonitor
    \/ GoBack
    \/ scans < MaxScans /\ scan_devices
    \/ \E devices \in Discoveries : scan_devices_thread(devices)
    \/ \E sel \in 0..Len(listbox) : connect_device(sel)

\* Any peripheral, any payload of Payloads, and an operator who monitors
\* each address at most once.
Next ==
    \/ Operator
    \/ \E address \in Addresses \ Monitored : start_heart_rate_gui(address)
    \/ ExitProgram
    \/ CloseWindow
    \/ \E s \in DOMAIN sessions : ConnectOk(s)
    \/ \E s \in DOMAIN sessions : ConnectFail(s)
    \/ \E s \in DOMAIN sessions : IsConnected(s)
    \/ \E s \in DOMAIN sessions : SubscribeOk(s)
    \/ \E s \in DOMAIN sessions : SubscribeFail(s)
    \/ \E s \in DOMAIN sessions : TransportDrop(s)
    \/ \E s \in DOMAIN sessions : Tick(s)
    \/ \E s \in DOMAIN sessions : Retry(s)
    \/ beat < MaxBeats /\ \E s \in DOMAIN sessions, data \in Payloads : Notify(s, data)

Spec == Init /\ [][Next]_vars

\* One session on a reliable peripheral that reports RampValue, for
\* LongRun notifications: long enough to fill the history and wrap it.
NextLong ==
    \/ Operator
    \/ sessions = <<>> /\ \E address \in Addresses : start_heart_rate_gui(address)
    \/ \E s \in DOMAIN sessions : ConnectOk(s)
    \/ \E s \in DOMAIN sessions : IsConnected(s)
    \/ \E s \in DOMAIN sessions : SubscribeOk(s)
    \/ /\ beat < LongRun
       /\ \E s \in DOMAIN sessions :
             \E data \in RampPayloads(RampValue(sessions[s].device_address, beat + 1)) :
                Notify(s, data)

SpecLong == Init /\ [][NextLong]_vars

----------------------------------------------------------------------------
(* Claims *)

Last(seq) == seq[Len(seq)]

LastN(seq, n) == SubSeq(seq, Len(seq) - n + 1, Len(seq))

\* A flags byte with bit 0 set announces a 16-bit value.
SixteenBit(data) == data[1] % 2 = 1

\* C1: the rolling history never holds more than Capacity (50) values, and
\* once Capacity or more samples have been appended it holds exactly the
\* last Capacity of them, in the order they were appended.
C1_RollingBuffer ==
    \A s \in DOMAIN sessions :
        /\ Len(sessions[s].HeartRateValues) <= Capacity
        /\ Len(sessions[s].appended) >= Capacity
              => sessions[s].HeartRateValues = LastN(sessions[s].appended, Capacity)

\* C1: the peripheral that counts 1, 2, 3, ... has sent 55 samples and the
\* history holds 6..55.
C1_Witness ==
    \E s \in DOMAIN sessions :
        /\ Len(sessions[s].appended) = 55
        /\ sessions[s].appended = [i \in 1..55 |-> i]
        /\ sessions[s].HeartRateValues = [i \in 1..Capacity |-> i + 5]

\* C2: when the payload last received has bit 0 of its flags set and at
\* least 3 bytes, the value delivered to the consumer (the label and the
\* newest entry of the history) is the 16-bit little-endian number of its
\* bytes 1 and 2.
C2_SixteenBitValue ==
    \A s \in DOMAIN sessions :
        LET data == sessions[s].lastData
        IN  (sessions[s].delivered /\ Len(data) >= 3 /\ SixteenBit(data))
               => /\ sessions[s].label = data[2] + 256 * data[3]
                  /\ Last(sessions[s].HeartRateValues) = data[2] + 256 * data[3]

\* C3: when the payload last received has bit 0 of its flags clear and at
\* least 2 bytes, the value decoded from it is its byte at offset 1, and
\* that is the value delivered to the consumer (the label and the newest
\* entry of the history).
C3_EightBitValue ==
    \A s \in DOMAIN sessions :
        LET data == sessions[s].lastData
        IN  (Len(data) >= 2 /\ ~SixteenBit(data))
               => /\ Last(sessions[s].decoded) = data[2]
                  /\ sessions[s].delivered
                        => /\ sessions[s].label = data[2]
                           /\ Last(sessions[s].HeartRateValues) = data[2]
                           /\ Last(sessions[s].appended) = data[2]

\* C3: the payload <<6, 200>> (bit 0 clear, other flag bits set) has been
\* delivered as 200.
C3_Witness ==
    \E s \in DOMAIN sessions :
        /\ sessions[s].delivered
        /\ sessions[s].lastData = <<6, 200>>
        /\ sessions[s].label = 200

\* C4: no session ever ends as a hard failure: a connect or subscribe
\* failure always leads to the 5-second wait and a new attempt, so the
\* thread of a session never ends with an exception.
C4_NeverHardFailure ==
    \A s \in DOMAIN sessions : sessions[s].pc # "failed"

\* C5: a step in which the transport of a streaming session drops (and the
\* program is not exiting) takes that session to the backoff wait, from
\* which the timer makes one new connect attempt.
C5_DropLeadsToBackoff ==
    [][\A s \in DOMAIN sessions :
          (/\ sessions[s].pc = "streaming"
           /\ sessions[s].link
           /\ ~sessions'[s].link
           /\ sessions'[s].pc # "killed")
             => sessions'[s].pc = "backoff"]_vars

\* C6: a session on a peripheral's address that waits in backoff after a
\* failure, and that the operator has cancelled (its window is closed),
\* makes no further connect attempt.
C6_NoConnectAfterCancel ==
    [][\A s \in DOMAIN sessions :
          (/\ sessions[s].device_address \in Addresses
           /\ sessions[s].pc = "backoff"
           /\ ~WindowOpen(s))
             => sessions'[s].pc # "connect"]_vars

\* C7: a session the operator has ended (its window is closed) holds no
\* open connection.
C7_ReleasedOnCancel ==
    \A s \in DOMAIN sessions : ~WindowOpen(s) => ~sessions[s].link

\* C8: at most one monitoring thread is running at any moment.
C8_SingleSupervisor ==
    Cardinality({ s \in DOMAIN sessions : Running(sessions[s]) }) <= 1

\* C9: the samples appended to a session's history are exactly the samples
\* its callback decoded, in the same order: none lost, duplicated or
\* reordered.
C9_DeliveredInOrder ==
    \A s \in DOMAIN sessions : sessions[s].appended = sessions[s].decoded

\* C10: a notification of fewer than 2 bytes changes nothing of the session
\* that receives it but the record of the payload last received: nothing is
\* appended, the thread stays in its streaming loop with its connection,
\* and the label keeps its value.  A valid notification that follows a
\* short one is decoded, and is delivered (label, history) whenever the
\* session's window is open, as any other valid notification is.
C10_ShortPayloadIgnored ==
    [][beat' = beat + 1 =>
          \A s \in DOMAIN sessions :
              LET old == sessions[s]
                  new == sessions'[s]
              IN  /\ (new # old /\ ~Decodable(new.lastData))
                        => new = [old EXCEPT !.lastData = new.lastData,
                                            !.delivered = FALSE]
                  /\ (new # old /\ Decodable(new.lastData) /\ ~Decodable(old.lastData))
                        => /\ new.pc = "streaming" /\ new.link
                           /\ new.decoded = Append(old.decoded, new.lastData[2])
                           /\ WindowOpen(s)
                                 => /\ new.delivered
                                    /\ new.label = new.lastData[2]
                                    /\ new.appended = Append(old.appended, new.lastData[2])
                                    /\ Last(new.HeartRateValues) = new.lastData[2]]_vars

\* C10: one session has received a short payload and then a valid one,
\* which was delivered: it is still streaming and its history ends with
\* that one sample.
C10_Witness ==
    /\ Len(sessions) = 1
    /\ beat = 2
    /\ sessions[1].pc = "streaming"
    /\ sessions[1].delivered
    /\ Len(sessions[1].decoded) = 1
    /\ sessions[1].appended = sessions[1].decoded

\* C11: the label and the history of every session are written by the
\* main (consumer) thread only, never by a BLE thread.
C11_ConsumerIsOnlyWriter ==
    \A s \in DOMAIN sessions : sessions[s].writer = "main"

\* C12: when the last discovery found no peripheral and no scan is in
\* progress, the list shown to the operator is empty and no error has been
\* reported: the program is as it was before the scan.
C12_EmptyScanChangesNothing ==
    (ui = "main" /\ scanning = 0 /\ discovered = 0)
        => (listbox = <<>> /\ messagebox = "")

\* C13 (as claimed): the "Connected" message of an attempt is emitted only
\* by a step that enters the streaming loop, that is, after start_notify
\* has succeeded.
C13_ConnectedOnlyWhenSubscribed ==
    [][\A s \in DOMAIN sessions :
          (~sessions[s].announced /\ sessions'[s].announced)
             => sessions'[s].pc = "streaming"]_vars

\* C13 (amended): the "Connected" message of an attempt is emitted only by
\* the step that finds the open connection connected and goes on to
\* subscribe; it precedes start_notify.
C13_ConnectedOnConnect ==
    [][\A s \in DOMAIN sessions :
          (~sessions[s].announced /\ sessions'[s].announced)
             => /\ sessions[s].pc = "check"
                /\ sessions[s].link
                /\ sessions'[s].pc = "subscribe"]_vars

\* C13: an attempt has printed "Connected" and its start_notify then
\* failed: the session waits in backoff.
C13_Witness ==
    \E s \in DOMAIN sessions :
        sessions[s].announced /\ sessions[s].pc = "backoff"

\* C14: in the gui at most one client connection is open at any time, and
\* a session that waits out the 5-second delay, or that is opening its next
\* client, holds no open connection: the client of the failed attempt was
\* closed first.
C14_OneClientOpen ==
    app = "gui" =>
        /\ Cardinality({ s \in DOMAIN sessions : sessions[s].link }) <= 1
        /\ \A s \in DOMAIN sessions :
              sessions[s].pc \in {"backoff", "connect"} => ~sessions[s].link

\* C14: the second attempt in a row has failed after its client was open
\* (it had printed "Connected"), and the delay starts with the client
\* closed.
C14_Witness ==
    /\ app = "gui"
    /\ \E s \in DOMAIN sessions :
          /\ sessions[s].pc = "backoff"
          /\ sessions[s].depth = 1
          /\ sessions[s].announced
          /\ sessions[s].timer = RetryDelay
          /\ ~sessions[s].link

\* C15: in the gui the address of every session is the address of a
\* peripheral that a discovery listed, never a placeholder row.
C15_AddressFromScan ==
    app = "gui" =>
        \A s \in DOMAIN sessions : sessions[s].device_address \in Addresses

\* C16: the history holds exactly Capacity (50) values in every state.
\* With j samples appended so far, a sample that fewer than Capacity later
\* samples have followed is still in the history, at the place its age
\* gives it, and while j < Capacity the history is Capacity - j zeros
\* followed by the j samples in order.
C16_HistoryOfFifty ==
    \A s \in DOMAIN sessions :
        LET h == sessions[s].HeartRateValues
            a == sessions[s].appended
            j == Len(a)
        IN  /\ Len(h) = Capacity
            /\ \A i \in 1..j : j - i < Capacity => h[Capacity - (j - i)] = a[i]
            /\ \A i \in 1..Capacity : i <= Capacity - j => h[i] = 0

\* C16: the peripheral that counts 1, 2, 3, ... has sent 7 samples and the
\* history is 43 zeros followed by 1..7.
C16_Witness ==
    \E s \in DOMAIN sessions :
        /\ sessions[s].appended = <<1, 2, 3, 4, 5, 6, 7>>
        /\ sessions[s].HeartRateValues =
              [i \in 1..Capacity |-> IF i <= 43 THEN 0 ELSE i - 43]

====
